---- MODULE Spec2Model ----
(***************************************************************************)
(* Smart energy meter firmware (main.ino + WebClient.h): the cooperative   *)
(* control loop, the relay reconciliation between IR remote, relay         *)
(* hardware and the HTTP server, and the WebClient operations.             *)
(***************************************************************************)
EXTENDS Integers, Sequences, FiniteSets, TLC

\* ---------------------------------------------------------------- bounds
MaxTicks == 2
ClockBits == 16
ClockModulus == 2 ^ ClockBits
SetupDurations == {6000, 16000}
TickDurations == {1000, 15000}

\* ------------------------------------------------------ program constants
printPeriod == 1500
webSendPeriod == 10000
relayPollPeriod == 3000
reconnectInterval == 30000
HTTP_OK == 200

\* ------------------------------------------------------------ value sets
Pair(a, b) == [relay1 |-> a, relay2 |-> b]
Pairs == [relay1 : BOOLEAN, relay2 : BOOLEAN]
PairFF == Pair(FALSE, FALSE)

HttpCodes == {200, 500, -1, -11}
ErrorCodes == {-1, -11}

Fields == {"absent", "true", "false"}
MalformedBody == [ok |-> FALSE, relay1 |-> "absent", relay2 |-> "absent"]
Bodies == {MalformedBody} \cup [ok : {TRUE}, relay1 : Fields, relay2 : Fields]

Buttons == {"none", "relay1", "relay2", "other"}

\* PinConfig::begin(): the relay state is initialized from the hardware state at boot
BootRelayStates == Pairs

\* sensor1, sensor2, sensor3
SensorIds == {1, 2, 3}
\* begin() waits for the association at most this many times
MaxAttempts == 20
AttemptDelay == 500
\* the delay() calls of setup() outside begin()
SetupDelay == 6000

VARIABLES
    pc, now,
    previousMillis, previousWebMillis, previousRelayPoll,
    relay, previousRelay1State, previousRelay2State, initialSyncDone,
    connected, lastReconnectAttempt,
    wifiUp, server,
    tick, netlog, irEvent, irSet, wrote, pollRec, lastApplied, irSincePoll,
    probe,
    attempts, calibrated, fresh, lastReadings,
    since, fired, reconnecting, telemetryPayload, pushLost, missed

progVars == <<pc, now, previousMillis, previousWebMillis, previousRelayPoll,
              relay, previousRelay1State, previousRelay2State, initialSyncDone,
              connected, lastReconnectAttempt>>
envVars == <<wifiUp, server>>
histVars == <<tick, netlog, irEvent, irSet, wrote, pollRec, lastApplied, irSincePoll>>
\* begin()'s attempts counter, the three current samplers and the last* readings
sensVars == <<attempts, calibrated, fresh, lastReadings>>
\* elapsed time since each cadence fired, what the current tick did, and whether the
\* last telemetry round was skipped or failed
clockVars == <<since, fired, reconnecting, telemetryPayload, pushLost, missed>>
vars == <<progVars, envVars, histVars, probe, sensVars, clockVars>>

\* ------------------------------------------------------- pure operators
\* unsigned subtraction of two clock readings
WrapSub(a, b) == (a - b + ClockModulus) % ClockModulus

\* variant: the deadline is computed by addition and compared without wrapping
Due_NoWrap(t, last, period) == t >= last + period

\* (unsigned long)(millis() - last) >= period
Due(t, last, period) == WrapSub(t, last) >= period

\* serializeJson of a bool member
ToJson(b) == IF b THEN "true" ELSE "false"

\* bool x = doc["key"]: an absent member converts to false
AsBool(f) == f = "true"

JsonOfPair(p) == [ok |-> TRUE, relay1 |-> ToJson(p.relay1), relay2 |-> ToJson(p.relay2)]

\* variant: the gate looks at the radio only and forgets the client's flag
IsConnected_WifiOnly == wifiUp

\* WebClient::isConnected()
IsConnected == connected /\ wifiUp

\* variant: "changed" is reported only when both fields differ
GetRelayState_BothDiffer(conn, code, body, relay1State, relay2State) ==
    IF ~conn \/ code # HTTP_OK \/ ~body.ok
    THEN [ret |-> FALSE, relay1 |-> relay1State, relay2 |-> relay2State,
          begun |-> conn, ended |-> conn]
    ELSE LET newRelay1 == AsBool(body.relay1)
             newRelay2 == AsBool(body.relay2)
         IN [ret |-> (newRelay1 # relay1State) /\ (newRelay2 # relay2State),
             relay1 |-> newRelay1, relay2 |-> newRelay2,
             begun |-> TRUE, ended |-> TRUE]

\* variant: "changed" is reported for every response that parses
GetRelayState_AlwaysChanged(conn, code, body, relay1State, relay2State) ==
    IF ~conn \/ code # HTTP_OK \/ ~body.ok
    THEN [ret |-> FALSE, relay1 |-> relay1State, relay2 |-> relay2State,
          begun |-> conn, ended |-> conn]
    ELSE [ret |-> TRUE, relay1 |-> AsBool(body.relay1), relay2 |-> AsBool(body.relay2),
          begun |-> TRUE, ended |-> TRUE]

\* variant: every positive status is taken as success, as sendSensorData does
GetRelayState_AnyPositive(conn, code, body, relay1State, relay2State) ==
    IF ~conn \/ ~(code > 0) \/ ~body.ok
    THEN [ret |-> FALSE, relay1 |-> relay1State, relay2 |-> relay2State,
          begun |-> conn, ended |-> conn]
    ELSE LET newRelay1 == AsBool(body.relay1)
             newRelay2 == AsBool(body.relay2)
         IN [ret |-> (newRelay1 # relay1State) \/ (newRelay2 # relay2State),
             relay1 |-> newRelay1, relay2 |-> newRelay2,
             begun |-> TRUE, ended |-> TRUE]

\* WebClient::getRelayState(bool &relay1State, bool &relay2State)
GetRelayState(conn, code, body, relay1State, relay2State) ==
    IF ~conn
    THEN [ret |-> FALSE, relay1 |-> relay1State, relay2 |-> relay2State,
          begun |-> FALSE, ended |-> FALSE]
    ELSE IF code = HTTP_OK
         THEN IF body.ok
              THEN LET newRelay1 == AsBool(body.relay1)
                       newRelay2 == AsBool(body.relay2)
                       c1 == newRelay1 # relay1State
                       c2 == newRelay2 # relay2State
                   IN [ret |-> c1 \/ c2,
                       relay1 |-> IF c1 THEN newRelay1 ELSE relay1State,
                       relay2 |-> IF c2 THEN newRelay2 ELSE relay2State,
                       begun |-> TRUE, ended |-> TRUE]
              ELSE [ret |-> FALSE, relay1 |-> relay1State, relay2 |-> relay2State,
                    begun |-> TRUE, ended |-> TRUE]
         ELSE [ret |-> FALSE, relay1 |-> relay1State, relay2 |-> relay2State,
               begun |-> TRUE, ended |-> TRUE]

PostRelayState(conn, code) ==
    IF ~conn
    THEN [ret |-> FALSE, begun |-> FALSE, ended |-> FALSE]
    ELSE [ret |-> (code = HTTP_OK), begun |-> TRUE, ended |-> TRUE]

SendSensorData(conn, code) ==
    IF ~conn
    THEN [ret |-> FALSE, begun |-> FALSE, ended |-> FALSE]
    ELSE [ret |-> (code > 0), begun |-> TRUE, ended |-> TRUE]

\* the calls made on the HTTPClient member by sendSensorData, in order
SendSensorDataHttp(conn, code) ==
    IF ~conn
    THEN <<>>
    ELSE IF code > 0
         THEN <<"begin", "addHeader", "POST", "end">>
         ELSE <<"begin", "addHeader", "POST", "end">>

\* the calls made on the HTTPClient member by postRelayState, in order
PostRelayStateHttp(conn, code) ==
    IF ~conn
    THEN <<>>
    ELSE IF code = HTTP_OK
         THEN <<"begin", "addHeader", "POST", "end">>
         ELSE <<"begin", "addHeader", "POST", "end">>

\* variant: the parse-failure path returns without http.end()
GetRelayStateHttp_LeakOnParseError(conn, code, body) ==
    IF ~conn
    THEN <<>>
    ELSE IF code = HTTP_OK
         THEN IF body.ok
              THEN <<"begin", "setTimeout", "GET", "getString", "end">>
              ELSE <<"begin", "setTimeout", "GET", "getString">>
         ELSE <<"begin", "setTimeout", "GET", "end">>

\* the calls made on the HTTPClient member by getRelayState, in order
GetRelayStateHttp(conn, code, body) ==
    IF ~conn
    THEN <<>>
    ELSE IF code = HTTP_OK
         THEN IF body.ok
              THEN <<"begin", "setTimeout", "GET", "getString", "end">>
              ELSE <<"begin", "setTimeout", "GET", "getString", "end">>
         ELSE <<"begin", "setTimeout", "GET", "end">>

\* variant: a changed server state is recorded in the tracking copy but not written
PollBody_NoWrite(conn, code, body, rel, track) ==
    LET g == GetRelayState(conn, code, body, rel.relay1, rel.relay2)
    IN IF g.ret
       THEN [g |-> g, relay |-> rel,
             track |-> Pair(g.relay1, g.relay2), wrote |-> FALSE]
       ELSE [g |-> g, relay |-> rel, track |-> track, wrote |-> FALSE]

\* variant: only relay 1 is written to the hardware
PollBody_OnlyRelay1(conn, code, body, rel, track) ==
    LET g == GetRelayState(conn, code, body, rel.relay1, rel.relay2)
    IN IF g.ret
       THEN [g |-> g, relay |-> Pair(g.relay1, rel.relay2),
             track |-> Pair(g.relay1, g.relay2), wrote |-> TRUE]
       ELSE [g |-> g, relay |-> rel, track |-> track, wrote |-> FALSE]

\* body of the relay poll once the isConnected() gate has been passed
PollBody(conn, code, body, rel, track) ==
    LET g == GetRelayState(conn, code, body, rel.relay1, rel.relay2)
    IN IF g.ret
       THEN [g |-> g, relay |-> Pair(g.relay1, g.relay2),
             track |-> Pair(g.relay1, g.relay2), wrote |-> TRUE]
       ELSE [g |-> g, relay |-> rel, track |-> track, wrote |-> FALSE]

\* IRHandler::update(): a mapped button toggles its relay through PinConfig
IRHandlerUpdate(rel, btn) ==
    IF btn = "relay1"
    THEN [changed |-> TRUE, relay |-> Pair(~rel.relay1, rel.relay2)]
    ELSE IF btn = "relay2"
         THEN [changed |-> TRUE, relay |-> Pair(rel.relay1, ~rel.relay2)]
         ELSE [changed |-> FALSE, relay |-> rel]

\* ------------------------------------------------ network environment
\* what a request issued now can come back with
PostOutcomes ==
    {o \in [code : HttpCodes, applied : BOOLEAN] :
        /\ (~wifiUp => o.code \in ErrorCodes)
        /\ (o.code = HTTP_OK => o.applied)
        /\ (o.code \in {500, -1} => ~o.applied)
        /\ (~wifiUp => ~o.applied)}

ServerBodies ==
    LET full == JsonOfPair(server)
    IN {full, MalformedBody,
        [full EXCEPT !.relay1 = "absent"],
        [full EXCEPT !.relay2 = "absent"],
        [full EXCEPT !.relay1 = "absent", !.relay2 = "absent"]}

GetOutcomes ==
    {o \in [code : HttpCodes, body : ServerBodies] :
        /\ (~wifiUp => o.code \in ErrorCodes)
        /\ (o.code # HTTP_OK => o.body = MalformedBody)}

Entry(op, conn, r) == [op |-> op, conn |-> conn, begun |-> r.begun, ret |-> r.ret]

\* what the relay poll of the current tick did
NoPoll == [st |-> "none", up |-> FALSE, ok200 |-> FALSE, wf |-> FALSE,
           fetched |-> PairFF, before |-> PairFF, prevSame |-> FALSE, irBetween |-> FALSE,
           lost |-> FALSE]
\* the pair of the last poll that wrote the relays, while later polls fetched the same pair
NoFetch == [valid |-> FALSE, pair |-> PairFF]
\* the pair a response body carries
BodyPair(body) == Pair(body.relay1 = "true", body.relay2 = "true")

\* time since the display, telemetry and poll cadences fired and since the last reconnect
SinceBoot == [display |-> 0, web |-> 0, poll |-> 0, attempt |-> 0]
Elapse(sn, d) == [k \in DOMAIN sn |-> sn[k] + d]

NoOut == [ret |-> FALSE, relay1 |-> FALSE, relay2 |-> FALSE, begun |-> FALSE,
          wrote |-> FALSE, relay |-> PairFF, track |-> PairFF]
NoProbe == [conn |-> FALSE, code |-> 0, body |-> MalformedBody, relay |-> PairFF,
            track |-> PairFF, done |-> FALSE, out |-> NoOut]

\* ------------------------------------------------------------------ Init
Init ==
    /\ pc = "boot"
    /\ now = 0
    /\ previousMillis = 0
    /\ previousWebMillis = 0
    /\ previousRelayPoll = 0
    /\ relay = PairFF
    /\ previousRelay1State = FALSE
    /\ previousRelay2State = FALSE
    /\ initialSyncDone = FALSE
    /\ connected = FALSE
    /\ lastReconnectAttempt = 0
    /\ wifiUp = FALSE
    /\ server \in Pairs
    /\ tick = 0
    /\ netlog = <<>>
    /\ irEvent = FALSE
    /\ irSet = PairFF
    /\ wrote = FALSE
    /\ pollRec = NoPoll
    /\ lastApplied = NoFetch
    /\ irSincePoll = FALSE
    /\ probe = NoProbe
    /\ attempts = 0
    /\ calibrated = {}
    /\ fresh = {}
    /\ lastReadings = "zero"
    /\ since = SinceBoot
    /\ fired = {}
    /\ reconnecting = FALSE
    /\ telemetryPayload = "none"
    /\ pushLost = FALSE
    /\ missed = FALSE

\* ----------------------------------------------------------------- setup
\* setup() up to WiFi.begin() in webClient.begin(): the samplers are calibrated,
\* pinConfig.begin() leaves the relays in the state of the hardware at boot
SetupInit ==
    /\ pc = "boot"
    /\ calibrated' = SensorIds
    /\ \E p \in BootRelayStates : relay' = p
    /\ attempts' = 0
    /\ pc' = "begin"
    /\ UNCHANGED <<now, previousMillis, previousWebMillis, previousRelayPoll,
                   previousRelay1State, previousRelay2State, initialSyncDone,
                   connected, lastReconnectAttempt, envVars, histVars, probe,
                   fresh, lastReadings, clockVars>>

\* variant: the loop tests attempts <= 20
BeginWait_OneMore ==
    /\ pc = "begin"
    /\ ~wifiUp /\ attempts <= MaxAttempts
    /\ attempts' = attempts + 1
    /\ UNCHANGED <<progVars, envVars, histVars, probe,
                   calibrated, fresh, lastReadings, clockVars>>

\* begin(): one turn of while (WiFi.status() != WL_CONNECTED && attempts < 20)
BeginWait ==
    /\ pc = "begin"
    /\ ~wifiUp /\ attempts < MaxAttempts
    /\ attempts' = attempts + 1
    /\ UNCHANGED <<progVars, envVars, histVars, probe,
                   calibrated, fresh, lastReadings, clockVars>>

\* begin(): the while loop ends
BeginExit ==
    /\ pc = "begin"
    /\ ~(~wifiUp /\ attempts < MaxAttempts)
    /\ pc' = "beginif"
    /\ UNCHANGED <<now, previousMillis, previousWebMillis, previousRelayPoll, relay,
                   previousRelay1State, previousRelay2State, initialSyncDone,
                   connected, lastReconnectAttempt, envVars, histVars, probe,
                   sensVars, clockVars>>

\* begin(): if (WiFi.status() == WL_CONNECTED) sets the flag, and begin() returns
BeginDone ==
    /\ pc = "beginif"
    /\ connected' = wifiUp
    /\ \E d \in SetupDurations :
         /\ d >= SetupDelay + AttemptDelay * attempts
         /\ now' = d % ClockModulus
         /\ since' = Elapse(since, d)
    /\ attempts' = 0
    /\ pc' = "sync"
    /\ UNCHANGED <<previousMillis, previousWebMillis, previousRelayPoll, relay,
                   previousRelay1State, previousRelay2State, initialSyncDone,
                   lastReconnectAttempt, envVars, histVars, probe,
                   calibrated, fresh, lastReadings,
                   fired, reconnecting, telemetryPayload, pushLost, missed>>

\* setup(): initial relay state sync with server
SetupSync ==
    /\ pc = "sync"
    /\ IF IsConnected
       THEN \E o \in PostOutcomes :
              LET r == PostRelayState(connected, o.code)
              IN /\ previousRelay1State' = relay.relay1
                 /\ previousRelay2State' = relay.relay2
                 /\ netlog' = Append(netlog, Entry("POST_RELAY", connected, r))
                 /\ server' = IF r.begun /\ o.applied
                              THEN Pair(AsBool(ToJson(relay.relay1)), AsBool(ToJson(relay.relay2)))
                              ELSE server
                 /\ initialSyncDone' = TRUE
       ELSE UNCHANGED <<previousRelay1State, previousRelay2State, netlog, server,
                        initialSyncDone>>
    /\ pc' = "maintain"
    /\ UNCHANGED <<now, previousMillis, previousWebMillis, previousRelayPoll, relay,
                   connected, lastReconnectAttempt, wifiUp,
                   tick, irEvent, irSet, wrote, pollRec, lastApplied, irSincePoll, probe, sensVars, clockVars>>

\* ------------------------------------------------------------------ loop
\* variant: every maintain() that sees the WiFi down starts a reconnection attempt
Maintain_NoBackoff ==
    /\ pc = "maintain"
    /\ tick < MaxTicks
    /\ tick' = tick + 1
    /\ IF ~wifiUp
       THEN /\ connected' = FALSE
            /\ lastReconnectAttempt' = now
       ELSE /\ connected' = TRUE
            /\ UNCHANGED lastReconnectAttempt
    /\ reconnecting' = ~wifiUp
    /\ since' = [since EXCEPT !.attempt = IF reconnecting' THEN 0 ELSE @]
    /\ netlog' = <<>>
    /\ irEvent' = FALSE
    /\ irSet' = PairFF
    /\ wrote' = FALSE
    /\ pollRec' = NoPoll
    /\ fired' = {}
    /\ telemetryPayload' = "none"
    /\ pc' = "ir"
    /\ UNCHANGED <<now, previousMillis, previousWebMillis, previousRelayPoll, relay,
                   previousRelay1State, previousRelay2State, initialSyncDone,
                   envVars, lastApplied, irSincePoll, probe, sensVars, pushLost, missed>>

\* webClient.maintain(), first statement of loop()
Maintain ==
    /\ pc = "maintain"
    /\ tick < MaxTicks
    /\ tick' = tick + 1
    /\ IF ~wifiUp
       THEN /\ connected' = FALSE
            /\ lastReconnectAttempt' =
                 IF Due(now, lastReconnectAttempt, reconnectInterval)
                 THEN now ELSE lastReconnectAttempt
       ELSE /\ connected' = TRUE
            /\ UNCHANGED lastReconnectAttempt
    /\ reconnecting' = (~wifiUp /\ Due(now, lastReconnectAttempt, reconnectInterval))
    /\ since' = [since EXCEPT !.attempt = IF reconnecting' THEN 0 ELSE @]
    /\ netlog' = <<>>
    /\ irEvent' = FALSE
    /\ irSet' = PairFF
    /\ wrote' = FALSE
    /\ pollRec' = NoPoll
    /\ fired' = {}
    /\ telemetryPayload' = "none"
    /\ pc' = "ir"
    /\ UNCHANGED <<now, previousMillis, previousWebMillis, previousRelayPoll, relay,
                   previousRelay1State, previousRelay2State, initialSyncDone,
                   envVars, lastApplied, irSincePoll, probe, sensVars, pushLost, missed>>

\* variant: the push branch is entered whether or not update() reported a change
IRUpdate_AlwaysPush ==
    /\ pc = "ir"
    /\ \E btn \in Buttons :
         LET res == IRHandlerUpdate(relay, btn)
         IN /\ relay' = res.relay
            /\ irEvent' = res.changed
            /\ irSet' = IF res.changed THEN res.relay ELSE PairFF
            /\ irSincePoll' = (irSincePoll \/ res.changed)
            /\ pc' = "irpush"
    /\ UNCHANGED <<now, previousMillis, previousWebMillis, previousRelayPoll,
                   previousRelay1State, previousRelay2State, initialSyncDone,
                   connected, lastReconnectAttempt, envVars,
                   tick, netlog, wrote, pollRec, lastApplied, probe, sensVars, clockVars>>

\* irHandler.update()
IRUpdate ==
    /\ pc = "ir"
    /\ \E btn \in Buttons :
         LET res == IRHandlerUpdate(relay, btn)
         IN /\ relay' = res.relay
            /\ irEvent' = res.changed
            /\ irSet' = IF res.changed THEN res.relay ELSE PairFF
            /\ irSincePoll' = (irSincePoll \/ res.changed)
            /\ pc' = IF res.changed THEN "irpush" ELSE "sensors"
    /\ UNCHANGED <<now, previousMillis, previousWebMillis, previousRelayPoll,
                   previousRelay1State, previousRelay2State, initialSyncDone,
                   connected, lastReconnectAttempt, envVars,
                   tick, netlog, wrote, pollRec, lastApplied, probe, sensVars, clockVars>>

\* variant: a failed push is sent a second time
IRPush_Retry ==
    /\ pc = "irpush"
    /\ IF IsConnected
       THEN \E o \in PostOutcomes, o2 \in PostOutcomes :
              LET r == PostRelayState(connected, o.code)
                  r2 == PostRelayState(connected, o2.code)
                  first == Append(netlog, Entry("POST_RELAY", connected, r))
              IN /\ netlog' = IF r.ret THEN first
                               ELSE Append(first, Entry("POST_RELAY", connected, r2))
                 /\ server' = IF (r.begun /\ o.applied) \/ (~r.ret /\ r2.begun /\ o2.applied)
                              THEN relay ELSE server
                 /\ pushLost' = ~(r.ret \/ r2.ret)
       ELSE pushLost' = TRUE /\ UNCHANGED <<netlog, server>>
    /\ previousRelay1State' = relay.relay1
    /\ previousRelay2State' = relay.relay2
    /\ pc' = "sensors"
    /\ UNCHANGED <<now, previousMillis, previousWebMillis, previousRelayPoll, relay,
                   initialSyncDone, connected, lastReconnectAttempt, wifiUp,
                   tick, irEvent, irSet, wrote, pollRec, lastApplied, irSincePoll, probe,
                   sensVars, since, fired, reconnecting, telemetryPayload, missed>>

\* variant: a push that fails puts the relays back to the tracked state
IRPush_Revert ==
    /\ pc = "irpush"
    /\ IF IsConnected
       THEN \E o \in PostOutcomes :
              LET r == PostRelayState(connected, o.code)
              IN /\ netlog' = Append(netlog, Entry("POST_RELAY", connected, r))
                 /\ server' = IF r.begun /\ o.applied THEN relay ELSE server
                 /\ relay' = IF r.ret THEN relay
                             ELSE Pair(previousRelay1State, previousRelay2State)
                 /\ pushLost' = ~r.ret
       ELSE pushLost' = TRUE /\ UNCHANGED <<netlog, server, relay>>
    /\ previousRelay1State' = relay'.relay1
    /\ previousRelay2State' = relay'.relay2
    /\ pc' = "sensors"
    /\ UNCHANGED <<now, previousMillis, previousWebMillis, previousRelayPoll,
                   initialSyncDone, connected, lastReconnectAttempt, wifiUp,
                   tick, irEvent, irSet, wrote, pollRec, lastApplied, irSincePoll, probe,
                   sensVars, since, fired, reconnecting, telemetryPayload, missed>>

\* variant: the push waits for the connection before the loop goes on
IRPush_Blocking ==
    /\ pc = "irpush"
    /\ IsConnected
    /\ \E o \in PostOutcomes :
         LET r == PostRelayState(connected, o.code)
         IN /\ netlog' = Append(netlog, Entry("POST_RELAY", connected, r))
            /\ server' = IF r.begun /\ o.applied THEN relay ELSE server
            /\ pushLost' = ~r.ret
    /\ previousRelay1State' = relay.relay1
    /\ previousRelay2State' = relay.relay2
    /\ pc' = "sensors"
    /\ UNCHANGED <<now, previousMillis, previousWebMillis, previousRelayPoll, relay,
                   initialSyncDone, connected, lastReconnectAttempt, wifiUp,
                   tick, irEvent, irSet, wrote, pollRec, lastApplied, irSincePoll, probe,
                   sensVars, since, fired, reconnecting, telemetryPayload, missed>>

\* body of if (irHandler.update()): push to the server, update tracking
IRPush ==
    /\ pc = "irpush"
    /\ LET currentRelay1 == relay.relay1
           currentRelay2 == relay.relay2
       IN /\ IF IsConnected
             THEN \E o \in PostOutcomes :
                    LET r == PostRelayState(connected, o.code)
                    IN /\ netlog' = Append(netlog, Entry("POST_RELAY", connected, r))
                       /\ server' = IF r.begun /\ o.applied
                                    THEN Pair(AsBool(ToJson(currentRelay1)),
                                              AsBool(ToJson(currentRelay2)))
                                    ELSE server
                       /\ pushLost' = ~r.ret
             ELSE pushLost' = TRUE /\ UNCHANGED <<netlog, server>>
          /\ previousRelay1State' = currentRelay1
          /\ previousRelay2State' = currentRelay2
    /\ pc' = "sensors"
    /\ UNCHANGED <<now, previousMillis, previousWebMillis, previousRelayPoll, relay,
                   initialSyncDone, connected, lastReconnectAttempt, wifiUp,
                   tick, irEvent, irSet, wrote, pollRec, lastApplied, irSincePoll, probe,
                   sensVars, since, fired, reconnecting, telemetryPayload, missed>>

\* variant: sensor3.update() is left out
Sensors_SkipThird ==
    /\ pc = "sensors"
    /\ fresh' = fresh \cup {1, 2}
    /\ pc' = "display"
    /\ UNCHANGED <<now, previousMillis, previousWebMillis, previousRelayPoll, relay,
                   previousRelay1State, previousRelay2State, initialSyncDone,
                   connected, lastReconnectAttempt, envVars, histVars, probe,
                   attempts, calibrated, lastReadings, clockVars>>

\* sensor1.update(); sensor2.update(); sensor3.update()
Sensors ==
    /\ pc = "sensors"
    /\ fresh' = SensorIds
    /\ pc' = "display"
    /\ UNCHANGED <<now, previousMillis, previousWebMillis, previousRelayPoll, relay,
                   previousRelay1State, previousRelay2State, initialSyncDone,
                   connected, lastReconnectAttempt, envVars, histVars, probe,
                   attempts, calibrated, lastReadings, clockVars>>

\* variant: the readings round prints the currents without storing them in last*
Display_NoStore ==
    /\ pc = "display"
    /\ IF Due(now, previousMillis, printPeriod)
       THEN /\ previousMillis' = now
            /\ fresh' = {}
            /\ lastReadings' = lastReadings
            /\ fired' = fired \cup {"display"}
            /\ since' = [since EXCEPT !.display = 0]
       ELSE UNCHANGED <<previousMillis, fresh, lastReadings, fired, since>>
    /\ pc' = "telemetry"
    /\ UNCHANGED <<now, previousWebMillis, previousRelayPoll, relay,
                   previousRelay1State, previousRelay2State, initialSyncDone,
                   connected, lastReconnectAttempt, envVars, histVars, probe,
                   attempts, calibrated, reconnecting, telemetryPayload, pushLost, missed>>

\* print readings and update display
Display ==
    /\ pc = "display"
    /\ IF Due(now, previousMillis, printPeriod)
       THEN /\ previousMillis' = now
            \* getCurrent() drains the three samplers, the readings go to last*
            /\ fresh' = {}
            /\ lastReadings' = "measured"
            /\ fired' = fired \cup {"display"}
            /\ since' = [since EXCEPT !.display = 0]
       ELSE UNCHANGED <<previousMillis, fresh, lastReadings, fired, since>>
    /\ pc' = "telemetry"
    /\ UNCHANGED <<now, previousWebMillis, previousRelayPoll, relay,
                   previousRelay1State, previousRelay2State, initialSyncDone,
                   connected, lastReconnectAttempt, envVars, histVars, probe,
                   attempts, calibrated, reconnecting, telemetryPayload, pushLost, missed>>

\* variant: the telemetry timestamp is advanced only when the report was sent
Telemetry_RetryUntilSent ==
    /\ pc = "telemetry"
    /\ IF Due(now, previousWebMillis, webSendPeriod)
       THEN /\ fired' = fired \cup {"telemetry"}
            /\ since' = [since EXCEPT !.web = 0]
            /\ IF IsConnected
               THEN \E o \in PostOutcomes :
                      LET r == SendSensorData(connected, o.code)
                      IN /\ netlog' = Append(netlog, Entry("POST_DATA", connected, r))
                         /\ telemetryPayload' = IF r.begun THEN lastReadings
                                                ELSE telemetryPayload
                         /\ missed' = ~r.ret
                         /\ previousWebMillis' = IF r.ret THEN now ELSE previousWebMillis
               ELSE missed' = TRUE /\ UNCHANGED <<netlog, telemetryPayload, previousWebMillis>>
       ELSE UNCHANGED <<previousWebMillis, netlog, fired, since, telemetryPayload,
                        missed>>
    /\ pc' = "poll"
    /\ UNCHANGED <<now, previousMillis, previousRelayPoll, relay,
                   previousRelay1State, previousRelay2State, initialSyncDone,
                   connected, lastReconnectAttempt, envVars,
                   tick, irEvent, irSet, wrote, pollRec, lastApplied, irSincePoll, probe,
                   sensVars, reconnecting, pushLost>>

\* send sensor data to server
Telemetry ==
    /\ pc = "telemetry"
    /\ IF Due(now, previousWebMillis, webSendPeriod)
       THEN /\ previousWebMillis' = now
            /\ fired' = fired \cup {"telemetry"}
            /\ since' = [since EXCEPT !.web = 0]
            /\ IF IsConnected
               THEN \E o \in PostOutcomes :
                      LET r == SendSensorData(connected, o.code)
                      IN /\ netlog' = Append(netlog, Entry("POST_DATA", connected, r))
                         /\ telemetryPayload' = IF r.begun THEN lastReadings
                                                ELSE telemetryPayload
                         /\ missed' = ~r.ret
               ELSE missed' = TRUE /\ UNCHANGED <<netlog, telemetryPayload>>
       ELSE UNCHANGED <<previousWebMillis, netlog, fired, since, telemetryPayload,
                        missed>>
    /\ pc' = "poll"
    /\ UNCHANGED <<now, previousMillis, previousRelayPoll, relay,
                   previousRelay1State, previousRelay2State, initialSyncDone,
                   connected, lastReconnectAttempt, envVars,
                   tick, irEvent, irSet, wrote, pollRec, lastApplied, irSincePoll, probe,
                   sensVars, reconnecting, pushLost>>

\* poll server for web relay commands; loop() then returns and is called again
Poll ==
    /\ pc = "poll"
    /\ IF Due(now, previousRelayPoll, relayPollPeriod)
       THEN /\ previousRelayPoll' = now
            /\ IF IsConnected
               THEN \E o \in GetOutcomes :
                      LET b == PollBody(connected, o.code, o.body, relay,
                                        Pair(previousRelay1State, previousRelay2State))
                          parsed == o.code = HTTP_OK /\ o.body.ok
                          fetched == IF parsed THEN BodyPair(o.body) ELSE relay
                      IN /\ relay' = b.relay
                         /\ previousRelay1State' = b.track.relay1
                         /\ previousRelay2State' = b.track.relay2
                         /\ wrote' = b.wrote
                         /\ netlog' = Append(netlog, Entry("GET_RELAY", connected, b.g))
                         /\ pollRec' = [st |-> IF b.wrote THEN "applied"
                                               ELSE IF parsed THEN "same" ELSE "failed",
                                        up |-> wifiUp,
                                        ok200 |-> o.code = HTTP_OK,
                                        wf |-> parsed /\ o.body = JsonOfPair(server),
                                        fetched |-> fetched,
                                        before |-> relay,
                                        prevSame |-> parsed /\ lastApplied.valid
                                                       /\ lastApplied.pair = fetched,
                                        irBetween |-> irSincePoll,
                                        lost |-> pushLost]
                         /\ lastApplied' =
                              IF ~parsed THEN lastApplied
                              ELSE IF b.wrote THEN [valid |-> TRUE, pair |-> fetched]
                              ELSE IF lastApplied.valid /\ lastApplied.pair = fetched
                                   THEN lastApplied ELSE NoFetch
                         /\ irSincePoll' = IF parsed THEN FALSE ELSE irSincePoll
                         /\ pushLost' = IF parsed THEN FALSE ELSE pushLost
               ELSE /\ pollRec' = [NoPoll EXCEPT !.st = "skipped", !.up = wifiUp]
                    /\ UNCHANGED <<relay, previousRelay1State, previousRelay2State,
                                   wrote, netlog, lastApplied, irSincePoll, pushLost>>
       ELSE /\ pollRec' = [NoPoll EXCEPT !.st = "notdue", !.up = wifiUp]
            /\ UNCHANGED <<previousRelayPoll, relay, previousRelay1State,
                           previousRelay2State, wrote, netlog, lastApplied,
                           irSincePoll, pushLost>>
    /\ fired' = IF Due(now, previousRelayPoll, relayPollPeriod)
                THEN fired \cup {"poll"} ELSE fired
    /\ \E d \in TickDurations :
         /\ now' = (now + d) % ClockModulus
         /\ since' = Elapse([since EXCEPT !.poll =
                                IF Due(now, previousRelayPoll, relayPollPeriod)
                                THEN 0 ELSE @], d)
    /\ pc' = "maintain"
    /\ UNCHANGED <<previousMillis, previousWebMillis, initialSyncDone,
                   connected, lastReconnectAttempt, envVars, tick, irEvent, irSet, probe,
                   sensVars, reconnecting, telemetryPayload, missed>>

\* ----------------------------------------------------------- environment
\* the WiFi association is gained or lost at any moment after WiFi.begin()
WiFiChange ==
    /\ pc # "boot"
    /\ wifiUp' = ~wifiUp
    /\ UNCHANGED <<progVars, server, histVars, probe, sensVars, clockVars>>

\* a dashboard user stores a new relay command on the server
Dashboard ==
    /\ pc # "boot"
    /\ \E p \in Pairs \ {server} : server' = p
    /\ UNCHANGED <<progVars, wifiUp, histVars, probe, sensVars, clockVars>>

LoopStep == Maintain \/ IRUpdate \/ IRPush \/ Sensors \/ Display \/ Telemetry \/ Poll

Next ==
    \/ SetupInit \/ BeginWait \/ BeginExit \/ BeginDone \/ SetupSync
    \/ Maintain \/ IRUpdate \/ IRPush \/ Sensors \/ Display \/ Telemetry \/ Poll
    \/ WiFiChange \/ Dashboard

Spec == Init /\ [][Next]_vars

\* the Arduino runtime calls loop() forever and every step of it returns
SetupStep == SetupInit \/ BeginWait \/ BeginExit \/ BeginDone \/ SetupSync

LiveSpec == Spec /\ WF_vars(SetupStep \/ LoopStep)

\* setup() alone: every statement of it, delay(500) included, returns
SetupNext == SetupStep \/ WiFiChange \/ Dashboard

SetupSpec == Init /\ [][SetupNext]_vars /\ WF_vars(SetupStep)

\* ------------------------------------- the loop shortly before the clock wraps
\* millis() at the start of the tick, a little before the counter overflows
ClockStarts == {ClockModulus - 14000, ClockModulus - 500}
\* time between the previous tick's cadence checks and the moment it last fired
\* telemetry, the relay poll and a reconnection attempt
WebLags == {0, 9000}
PollLags == {0, 2000}
AttemptLags == {14000, 29000}

\* loop() is entered after a tick that lasted d0 and refreshed the display
ClockInit ==
    /\ pc = "maintain"
    /\ now \in ClockStarts
    /\ \E d0 \in TickDurations, ew \in WebLags, ep \in PollLags, ea \in AttemptLags :
         /\ since = [display |-> d0, web |-> d0 + ew, poll |-> d0 + ep, attempt |-> d0 + ea]
         /\ previousMillis = WrapSub(now, d0)
         /\ previousWebMillis = WrapSub(now, d0 + ew)
         /\ previousRelayPoll = WrapSub(now, d0 + ep)
         /\ lastReconnectAttempt = WrapSub(now, d0 + ea)
    /\ relay = PairFF
    /\ previousRelay1State = FALSE
    /\ previousRelay2State = FALSE
    /\ initialSyncDone = TRUE
    /\ connected = TRUE
    /\ wifiUp \in BOOLEAN
    /\ server = PairFF
    /\ tick = 0
    /\ netlog = <<>>
    /\ irEvent = FALSE
    /\ irSet = PairFF
    /\ wrote = FALSE
    /\ pollRec = NoPoll
    /\ lastApplied = NoFetch
    /\ irSincePoll = FALSE
    /\ probe = NoProbe
    /\ attempts = 0
    /\ calibrated = SensorIds
    /\ fresh = {}
    /\ lastReadings = "measured"
    /\ fired = {}
    /\ reconnecting = FALSE
    /\ telemetryPayload = "none"
    /\ pushLost = FALSE
    /\ missed = FALSE

ClockNext == LoopStep \/ WiFiChange \/ Dashboard

ClockSpec == ClockInit /\ [][ClockNext]_vars

\* ------------------------------------------- the relay poll on drawn inputs
\* every connected flag, HTTP status, response body, local pair and tracking pair
ProbeInputs ==
    [conn : BOOLEAN, code : HttpCodes, body : Bodies, relay : Pairs, track : Pairs,
     done : {FALSE}, out : {NoOut}]

ClientInit ==
    /\ pc = "boot"
    /\ now = 0
    /\ previousMillis = 0
    /\ previousWebMillis = 0
    /\ previousRelayPoll = 0
    /\ relay = PairFF
    /\ previousRelay1State = FALSE
    /\ previousRelay2State = FALSE
    /\ initialSyncDone = FALSE
    /\ connected = FALSE
    /\ lastReconnectAttempt = 0
    /\ wifiUp = FALSE
    /\ server = PairFF
    /\ tick = 0
    /\ netlog = <<>>
    /\ irEvent = FALSE
    /\ irSet = PairFF
    /\ wrote = FALSE
    /\ pollRec = NoPoll
    /\ lastApplied = NoFetch
    /\ irSincePoll = FALSE
    /\ probe \in ProbeInputs
    /\ attempts = 0
    /\ calibrated = {}
    /\ fresh = {}
    /\ lastReadings = "zero"
    /\ since = SinceBoot
    /\ fired = {}
    /\ reconnecting = FALSE
    /\ telemetryPayload = "none"
    /\ pushLost = FALSE
    /\ missed = FALSE

\* getRelayState and the statements of loop() that use its result
CallGetRelayState ==
    /\ ~probe.done
    /\ probe.code # 0
    /\ LET b == PollBody(probe.conn, probe.code, probe.body, probe.relay, probe.track)
       IN probe' = [probe EXCEPT !.done = TRUE,
                                 !.out = [ret |-> b.g.ret, relay1 |-> b.g.relay1,
                                          relay2 |-> b.g.relay2, begun |-> b.g.begun,
                                          wrote |-> b.wrote, relay |-> b.relay,
                                          track |-> b.track]]
    /\ UNCHANGED <<progVars, envVars, histVars, sensVars, clockVars>>

ClientSpec == ClientInit /\ [][CallGetRelayState]_vars

\* --------------------------------- the three HTTP operations on drawn inputs
HttpFunctions == {"sendSensorData", "postRelayState", "getRelayState"}

\* every function, connected flag, HTTP status and response body
HttpInputs ==
    [fn : HttpFunctions, conn : BOOLEAN, code : HttpCodes, body : Bodies,
     done : {FALSE}, http : {<<>>}]

HttpInit ==
    /\ pc = "boot"
    /\ now = 0
    /\ previousMillis = 0
    /\ previousWebMillis = 0
    /\ previousRelayPoll = 0
    /\ relay = PairFF
    /\ previousRelay1State = FALSE
    /\ previousRelay2State = FALSE
    /\ initialSyncDone = FALSE
    /\ connected = FALSE
    /\ lastReconnectAttempt = 0
    /\ wifiUp = FALSE
    /\ server = PairFF
    /\ tick = 0
    /\ netlog = <<>>
    /\ irEvent = FALSE
    /\ irSet = PairFF
    /\ wrote = FALSE
    /\ pollRec = NoPoll
    /\ lastApplied = NoFetch
    /\ irSincePoll = FALSE
    /\ probe \in HttpInputs
    /\ attempts = 0
    /\ calibrated = {}
    /\ fresh = {}
    /\ lastReadings = "zero"
    /\ since = SinceBoot
    /\ fired = {}
    /\ reconnecting = FALSE
    /\ telemetryPayload = "none"
    /\ pushLost = FALSE
    /\ missed = FALSE

HttpCallSendSensorData ==
    /\ ~probe.done /\ probe.fn = "sendSensorData"
    /\ probe' = [probe EXCEPT !.done = TRUE,
                              !.http = SendSensorDataHttp(probe.conn, probe.code)]
    /\ UNCHANGED <<progVars, envVars, histVars, sensVars, clockVars>>

HttpCallPostRelayState ==
    /\ ~probe.done /\ probe.fn = "postRelayState"
    /\ probe' = [probe EXCEPT !.done = TRUE,
                              !.http = PostRelayStateHttp(probe.conn, probe.code)]
    /\ UNCHANGED <<progVars, envVars, histVars, sensVars, clockVars>>

HttpCallGetRelayState ==
    /\ ~probe.done /\ probe.fn = "getRelayState"
    /\ probe' = [probe EXCEPT !.done = TRUE,
                              !.http = GetRelayStateHttp(probe.conn, probe.code, probe.body)]
    /\ UNCHANGED <<progVars, envVars, histVars, sensVars, clockVars>>

HttpNext == HttpCallSendSensorData \/ HttpCallPostRelayState \/ HttpCallGetRelayState

HttpSpec == HttpInit /\ [][HttpNext]_vars

TypeOK ==
    /\ pc \in {"boot", "begin", "beginif", "sync", "maintain", "ir", "irpush", "sensors", "display",
               "telemetry", "poll"}
    /\ now \in 0 .. ClockModulus - 1
    /\ relay \in Pairs /\ server \in Pairs
    /\ connected \in BOOLEAN /\ wifiUp \in BOOLEAN
    /\ tick \in 0 .. MaxTicks
    /\ Len(netlog) <= 3

\* ---------------------------------------------------------------- claims
FullBody(body) == body.ok /\ body.relay1 # "absent" /\ body.relay2 # "absent"
PostRelayCount == Cardinality({i \in DOMAIN netlog : netlog[i].op = "POST_RELAY"})
AfterIRBranch == pc \in {"sensors", "display", "telemetry", "poll"}
TickEnded == pc = "maintain" /\ tick >= 1

\* C1: connected, HTTP 200 and a body carrying (s1, s2): getRelayState returns
\* true exactly when s1 # r1 or s2 # r2, and the reference parameters end as (s1, s2).
C1_ChangedIffDiffers ==
    (probe.done /\ probe.conn /\ probe.code = 200 /\ FullBody(probe.body)) =>
        LET s1 == probe.body.relay1 = "true"
            s2 == probe.body.relay2 = "true"
        IN /\ probe.out.ret = ((s1 # probe.relay.relay1) \/ (s2 # probe.relay.relay2))
           /\ probe.out.relay1 = s1
           /\ probe.out.relay2 = s2

C1_Witness ==
    /\ probe.done /\ probe.conn /\ probe.code = 200 /\ FullBody(probe.body)
    /\ probe.out.ret
    /\ probe.out.relay1 # probe.relay.relay1
    /\ probe.out.relay2 = probe.relay.relay2

\* C2 as stated: the poll writes the relays only when the fetched pair differs from
\* the local pair, the local pair then equals the fetched pair, and a following poll
\* that fetches the same pair writes nothing.
C2_Original ==
    /\ (wrote => pollRec.fetched # pollRec.before)
    /\ (pollRec.st = "applied" => wrote /\ relay = pollRec.fetched)
    /\ (pollRec.prevSame => ~wrote)

\* C2 amended: as above, the last part for a following poll with no IR change of the
\* relays since the poll that wrote them.
C2_WriteOnlyOnDifference ==
    /\ (wrote => pollRec.fetched # pollRec.before)
    /\ (pollRec.st = "applied" => wrote /\ relay = pollRec.fetched)
    /\ ((pollRec.prevSame /\ ~pollRec.irBetween) => ~wrote)

C2_Witness ==
    /\ TickEnded
    /\ pollRec.st = "same"
    /\ pollRec.prevSame /\ ~pollRec.irBetween
    /\ pollRec.fetched.relay1 /\ ~pollRec.fetched.relay2

\* C3: in a tick of loop() at most one relay-state POST is sent, only when
\* irHandler.update() reported a change in that tick, and before the GET of the tick.
C3_OnePushPerIREvent ==
    (tick >= 1) =>
        /\ PostRelayCount <= (IF irEvent THEN 1 ELSE 0)
        /\ \A i, j \in DOMAIN netlog :
              (netlog[i].op = "POST_RELAY" /\ netlog[j].op = "GET_RELAY") => i < j

C3_Witness ==
    /\ TickEnded /\ irEvent
    /\ Len(netlog) = 2
    /\ netlog[1].op = "POST_RELAY" /\ netlog[2].op = "GET_RELAY"

\* C4: after the IR branch the relays hold the state the IR event produced,
\* whether the push succeeded, failed or was skipped.
C4_PushKeepsIRState ==
    (irEvent /\ AfterIRBranch) => relay = irSet

C4_Witness ==
    /\ irEvent /\ pc = "sensors"
    /\ Len(netlog) = 1 /\ netlog[1].op = "POST_RELAY" /\ ~netlog[1].ret
    /\ relay = irSet /\ server # relay

\* C5: every WebClient operation setup() and loop() call is called with the
\* connected flag true, and no http.begin happens with the flag false.
C5_NoRequestWhileDisconnected ==
    \A i \in DOMAIN netlog : netlog[i].conn /\ (netlog[i].begun => netlog[i].conn)

C5_Witness ==
    /\ TickEnded
    /\ Len(netlog) = 3
    /\ \A i \in DOMAIN netlog : netlog[i].begun

\* C6: a poll round reached with WiFi down writes no relay, an IR change made in a
\* tick whose poll finds WiFi down is still in place when the tick ends, and every
\* tick is followed by the IR check of the next one.
C6_Safety ==
    /\ ((pollRec.st \in {"skipped", "failed", "same", "applied"} /\ ~pollRec.up) =>
            (pollRec.st = "skipped" /\ ~wrote))
    /\ ((TickEnded /\ irEvent /\ ~pollRec.up) => relay = irSet)

C6_IRAvailableOffline ==
    /\ []C6_Safety
    /\ \A n \in 1 .. (MaxTicks - 1) :
          (tick = n /\ pc = "ir") ~> (tick = n + 1 /\ pc = "ir")

C6_Witness ==
    /\ TickEnded /\ irEvent
    /\ ~wifiUp /\ ~connected
    /\ pollRec.st = "skipped" /\ ~pollRec.up
    /\ netlog = <<>>
    /\ relay = irSet

\* C7: a poll round that gets HTTP 200 with the server's well-formed state ends with
\* the relays equal to the server's pair, and they stay equal over every step that is
\* not an IR change, a server-side change or a response that is not well-formed.
C7_ServerSideChange == server' # server /\ netlog' = netlog
C7_IRChange == pc = "ir" /\ irEvent'
C7_BadResponse == pc = "poll" /\ pollRec'.ok200 /\ ~pollRec'.wf

C7_PollConverges ==
    /\ [][(pc = "poll" /\ pollRec'.wf) => relay' = server']_vars
    /\ [][(pc # "boot" /\ relay = server /\ ~C7_ServerSideChange /\ ~C7_IRChange
             /\ ~C7_BadResponse) => relay' = server']_vars

C7_Witness ==
    /\ TickEnded
    /\ pollRec.st = "applied" /\ pollRec.wf
    /\ pollRec.before.relay2 # pollRec.fetched.relay2
    /\ relay = server

\* C8 as stated: a relay-state POST is sent only when an IR event occurred, and the
\* relays are written by the poll only when they differ from the pair just fetched.
C8_Original ==
    /\ (PostRelayCount > 0 => irEvent)
    /\ (wrote => pollRec.st = "applied" /\ pollRec.fetched # pollRec.before)

\* C8 amended: the relay-state POST is also sent once by setup() when connected.
C8_ConflictPolicy ==
    /\ (PostRelayCount > 0 => (irEvent \/ (tick = 0 /\ pc = "maintain" /\ initialSyncDone)))
    /\ (wrote => pollRec.st = "applied" /\ pollRec.fetched # pollRec.before)

C8_Witness ==
    /\ tick = 0 /\ pc = "maintain"
    /\ PostRelayCount = 1 /\ netlog[1].ret
    /\ server = relay

\* C9: disconnected or a status other than 200: getRelayState returns false, the
\* reference parameters keep their values, no relay is written, tracking is unchanged.
C9_FailedPollNoChange ==
    (probe.done /\ (~probe.conn \/ probe.code # 200)) =>
        /\ ~probe.out.ret
        /\ probe.out.relay1 = probe.relay.relay1
        /\ probe.out.relay2 = probe.relay.relay2
        /\ ~probe.out.wrote
        /\ probe.out.relay = probe.relay
        /\ probe.out.track = probe.track

C9_Witness ==
    /\ probe.done /\ probe.conn /\ probe.code = 500
    /\ FullBody(probe.body) /\ BodyPair(probe.body) # probe.relay
    /\ probe.track # probe.relay
    /\ ~probe.out.ret

\* C10: a 200 response whose body is malformed or lacks relay1, relay2 or both
\* leaves the relays as they were.
C10_PayloadErrorNoChange ==
    (pollRec.ok200 /\ ~pollRec.wf) => (~wrote /\ relay = pollRec.before)

\* C11: maintain() starts a reconnection attempt only while the WiFi is not
\* associated and only when at least reconnectInterval has passed since the
\* previous attempt; when maintain() returns the connected flag is false if the
\* WiFi is not associated and true if it is.
C11_ReconnectBackoff ==
    [][pc = "maintain" /\ pc' = "ir" =>
         /\ (reconnecting' => ~wifiUp /\ since.attempt >= reconnectInterval)
         /\ (reconnecting' <=> lastReconnectAttempt' = now /\ since'.attempt = 0)
         /\ connected' = wifiUp]_vars

\* a second attempt is started exactly reconnectInterval after the previous one,
\* and a maintain() that sees the WiFi back sets the flag again
C11_Witness ==
    /\ pc = "ir" /\ tick = 2
    /\ reconnecting /\ ~connected
    /\ since.attempt = 0

\* C12: at the end of setup() and at the end of every loop tick the tracking copy
\* (previousRelay1State, previousRelay2State) equals the state of the relays.
C12_TrackingEqualsRelays ==
    pc = "maintain" => Pair(previousRelay1State, previousRelay2State) = relay

OpCount(op) == Cardinality({i \in DOMAIN netlog : netlog[i].op = op})

\* C13: a telemetry or poll round whose deadline has elapsed sets its timestamp to
\* the current time whether the request is skipped, fails or succeeds; a request
\* is issued only when a full interval has passed since the round last fired, at
\* most one of each per tick, so a missed report is never sent later.
C13_AtMostOncePerCycle ==
    /\ [](OpCount("POST_DATA") <= 1 /\ OpCount("GET_RELAY") <= 1)
    /\ [][/\ (pc = "telemetry" /\ netlog' # netlog => since.web >= webSendPeriod)
          /\ (pc = "poll" /\ netlog' # netlog => since.poll >= relayPollPeriod)
          /\ (pc = "telemetry" /\ "telemetry" \in fired'
                => previousWebMillis' = now /\ WrapSub(now, previousWebMillis) >= webSendPeriod)
          /\ (pc = "poll" /\ "poll" \in fired'
                => previousRelayPoll' = now /\ WrapSub(now, previousRelayPoll) >= relayPollPeriod)
          /\ (pc = "telemetry" /\ "telemetry" \notin fired' => netlog' = netlog)
          /\ (pc = "poll" /\ "poll" \notin fired' => netlog' = netlog)]_vars

\* the tick after a skipped or failed telemetry round: nothing is sent
C13_Witness ==
    /\ pc = "poll" /\ tick = 2
    /\ missed
    /\ "telemetry" \notin fired
    /\ since.web > 0 /\ since.web < webSendPeriod
    /\ OpCount("POST_DATA") = 0

\* a cadence check: it fires exactly when the interval has really elapsed, exactly
\* when the wrapped difference reaches the interval, and then stores the time
CadenceStep(at, name, last, lastNext, period, elapsed) ==
    pc = at /\ pc' # at =>
      /\ (name \in fired' <=> elapsed >= period)
      /\ (name \in fired' <=> WrapSub(now, last) >= period)
      /\ (name \in fired' => lastNext = now)
      /\ (name \notin fired' => lastNext = last)

\* C14: with a wrapping millisecond counter each of the three cadences fires in a
\* tick exactly when (now - last_fired) mod 2^w >= interval, which is exactly when
\* the interval has elapsed since it last fired, and then sets last_fired to now:
\* an overflow neither loses a trigger nor produces one early.
C14_WrapSafeCadences ==
    [][/\ CadenceStep("display", "display", previousMillis, previousMillis',
                      printPeriod, since.display)
       /\ CadenceStep("telemetry", "telemetry", previousWebMillis, previousWebMillis',
                      webSendPeriod, since.web)
       /\ CadenceStep("poll", "poll", previousRelayPoll, previousRelayPoll',
                      relayPollPeriod, since.poll)]_vars

\* a tick that began after the counter had wrapped fired all three cadences, whose
\* previous timestamps were taken before the wrap
C14_Witness ==
    /\ pc = "maintain" /\ tick = 2
    /\ fired = {"display", "telemetry", "poll"}
    /\ previousRelayPoll < 2 * 15000
    /\ previousMillis = previousRelayPoll /\ previousWebMillis = previousRelayPoll

\* C15: whenever the readings round calls getCurrent() on the three sensors, each
\* of them has been calibrated, and each has had update() called since its
\* previous getCurrent() (or since boot for the first one).
C15_CalibratedAndUpdatedBeforeDrain ==
    [][pc = "display" /\ "display" \in fired' =>
         calibrated = SensorIds /\ fresh = SensorIds /\ fresh' = {}]_vars

\* the second readings round of a run has drained the samplers
C15_Witness ==
    /\ pc = "telemetry" /\ tick = 2
    /\ "display" \in fired
    /\ fresh = {}
    /\ calibrated = SensorIds

HttpCalls(h, name) == Cardinality({i \in DOMAIN h : h[i] = name})

\* C16: in sendSensorData, postRelayState and getRelayState, for every status and
\* body, either no HTTP call is made (not connected) or http.begin() is the first
\* call, http.end() the last, and each is made exactly once.
C16_BeginEndPaired ==
    probe.done =>
      LET h == probe.http
      IN /\ (h = <<>>) <=> ~probe.conn
         /\ HttpCalls(h, "begin") = HttpCalls(h, "end")
         /\ h # <<>> => /\ h[1] = "begin" /\ h[Len(h)] = "end"
                        /\ HttpCalls(h, "begin") = 1

\* getRelayState on HTTP 200 with a body that does not parse
C16_Witness ==
    /\ probe.done
    /\ probe.fn = "getRelayState" /\ probe.conn
    /\ probe.code = HTTP_OK /\ ~probe.body.ok
    /\ probe.http[Len(probe.http)] = "end"

\* C17: begin() waits for the association at most 20 times and always returns;
\* when it returns the connected flag is true exactly when the WiFi status it
\* read was associated; setup() sends the initial relay-state POST only when
\* isConnected() holds.
C17_BeginTerminates ==
    /\ [][attempts' <= MaxAttempts]_vars
    /\ (pc = "begin") ~> (pc = "sync")
    /\ (pc = "begin") ~> (pc = "maintain")
    /\ [][pc = "beginif" /\ pc' = "sync" => connected' = wifiUp]_vars
    /\ [][pc = "sync" /\ pc' = "maintain" =>
            /\ (netlog' # netlog <=> connected /\ wifiUp)
            /\ (netlog' # netlog <=> initialSyncDone')]_vars

\* the association never came and the loop of begin() used its whole budget
C17_Witness ==
    /\ pc = "beginif"
    /\ attempts = MaxAttempts
    /\ ~wifiUp

\* C18: when the push of an IR change failed or was skipped and the server still
\* stores a state different from the relays, the next poll that gets HTTP 200
\* with a well-formed body writes the server's state to the relays, undoing the
\* IR change; relay state is posted only by setup() and by the IR branch of the
\* tick in which the IR event happened, so the lost state is not pushed again.
C18_LostPushReverted ==
    /\ [][pc = "poll" /\ pushLost /\ server # relay /\ pollRec'.wf =>
            /\ wrote' /\ relay' = server
            /\ Pair(previousRelay1State', previousRelay2State') = server
            /\ ~pushLost']_vars
    /\ [][netlog' # netlog /\ netlog' # <<>> /\ netlog'[Len(netlog')].op = "POST_RELAY" =>
            \/ pc = "sync"
            \/ pc = "irpush" /\ irEvent /\ relay = irSet]_vars

\* an IR change of an earlier tick whose push was lost is undone by this tick's poll,
\* and the tick posts nothing
C18_Witness ==
    /\ pc = "maintain" /\ tick = 2
    /\ ~irEvent
    /\ pollRec.st = "applied" /\ pollRec.wf /\ pollRec.lost
    /\ relay = server /\ relay # pollRec.before
    /\ OpCount("POST_RELAY") = 0

\* C19: the readings sent by sendSensorData are never the zero initializers of the
\* last* variables: a readings round has assigned them before the first telemetry
\* POST; the telemetry round does not call getCurrent().
C19_TelemetryAfterReadings ==
    /\ [](telemetryPayload # "zero")
    /\ [](OpCount("POST_DATA") > 0 => lastReadings = "measured" /\ telemetryPayload = "measured")
    /\ [][pc = "telemetry" => fresh' = fresh /\ lastReadings' = lastReadings]_vars

\* the first tick sends a report and its readings round ran just before
C19_Witness ==
    /\ pc = "poll" /\ tick = 1
    /\ OpCount("POST_DATA") = 1
    /\ {"display", "telemetry"} \subseteq fired
    /\ telemetryPayload = "measured"

====
